---------------------------- MODULE Spec2Model ----------------------------
(***************************************************************************)
(* A model of babeldoc/pdfminer/psparser.py: the symbol tables, the        *)
(* buffered byte tokenizer PSBaseParser and the stack parser               *)
(* PSStackParser.                                                          *)
(*                                                                         *)
(* Bytes are their integer codes, a bytes object is a sequence of codes,   *)
(* and every index is 0-based as in the source: s[j] of the source is      *)
(* At(s, j) and s[i:j] is Slice(s, i, j).  One step of the model is one    *)
(* pass of the loop of nexttoken (a refill and one call of the handler     *)
(* self._parse1), one call or return of a public method, or one token      *)
(* dispatched by nextobject.                                               *)
(***************************************************************************)
EXTENDS Integers, Sequences, FiniteSets, TLC

VARIABLES
    parser,     \* the attributes of the parser instance (a record)
    STRICT,     \* settings.STRICT
    pc,         \* the public method that is running: idle, nexttoken, nextobject
    ret,        \* how the latest public call ended
    out,        \* the (pos, token) pairs nexttoken has popped since the last seek
    origin,     \* the argument of the last seek
    rescan,     \* whether calls were made before the last seek
    table,      \* PSSymbolTable.dict: payload -> instance
    thread,     \* the callers of intern: where each is and what it holds
    nextid,     \* the identity the next new instance gets
    handed,     \* (payload, instance) pairs intern has returned
    frame,      \* the locals of nextline and of the revreadlines generator
    yielded,    \* the (offset, chunk) pairs revreadlines has yielded since the last seek
    flushed     \* the number of calls of the flush hook since the last seek

vars == <<parser, STRICT, pc, ret, out, origin, rescan, table, thread, nextid, handed,
          frame, yielded, flushed>>

----------------------------------------------------------------------------
(* Bounds of the model *)

\* literal strings: bytes after the opening parenthesis
MaxStrBody == 4
\* names: bytes after the slash
MaxNameBody == 4
\* numbers
MaxNumLen == 4
\* hex strings and angle brackets: bytes after the first <
MaxHexBody == 3
\* comments, operators, NUL and single-byte operators
MaxMiscLen == 3
\* stack parser: lexemes per input
MaxObjToks == 3
\* buffer sizes 1..MaxBufsiz are tried beside the program's BUFSIZ
MaxBufsiz == 2
\* seek targets 0..MaxSeek
MaxSeek == 0
\* concurrent callers of intern
MaxThreads == 3

\* PSBaseParser.BUFSIZ
BUFSIZ == 4096

----------------------------------------------------------------------------
(* Bytes *)

ch == [TAB |-> 9, LF |-> 10, VT |-> 11, FF |-> 12, CR |-> 13, SP |-> 32,
       NUL |-> 0, HASH |-> 35, PERCENT |-> 37, LPAREN |-> 40, RPAREN |-> 41,
       PLUS |-> 43, MINUS |-> 45, DOT |-> 46, SLASH |-> 47, ZERO |-> 48,
       ONE |-> 49, TWO |-> 50, FOUR |-> 52, SEVEN |-> 55, NINE |-> 57,
       LT |-> 60, GT |-> 62, A |-> 65, B |-> 66, F |-> 70, G |-> 71,
       K |-> 75, Z |-> 90, LBRACKET |-> 91, BACKSLASH |-> 92,
       RBRACKET |-> 93, T |-> 84, a |-> 97, b |-> 98, e |-> 101, f |-> 102,
       l |-> 108, n |-> 110, r |-> 114, s |-> 115, t |-> 116, u |-> 117, z |-> 122,
       LBRACE |-> 123, RBRACE |-> 125]

Byte == 0..255

\* \s of a bytes pattern
Space == {ch.TAB, ch.LF, ch.VT, ch.FF, ch.CR, ch.SP}
\* bytes.isdigit of one byte
isdigit(c) == c \in ch.ZERO..ch.NINE
\* bytes.isalpha of one byte
isalpha(c) == c \in ch.A..ch.Z \/ c \in ch.a..ch.z
Delimiter == {ch.HASH, ch.SLASH, ch.PERCENT, ch.LBRACKET, ch.RBRACKET,
              ch.LPAREN, ch.RPAREN, ch.LT, ch.GT, ch.LBRACE, ch.RBRACE}

\* The patterns of the module; each matches one byte, and is the test of
\* that byte here
EOL(c) == c \in {ch.CR, ch.LF}
SPC(c) == c \in Space
NONSPC(c) == c \notin Space
HEX(c) == isdigit(c) \/ c \in ch.A..ch.F \/ c \in ch.a..ch.f
END_LITERAL(c) == c \in Delimiter \/ c \in Space
END_HEX_STRING(c) == ~(SPC(c) \/ HEX(c))
END_NUMBER(c) == ~isdigit(c)
END_KEYWORD(c) == c \in Delimiter \/ c \in Space
END_STRING(c) == c \in {ch.LPAREN, ch.RPAREN, ch.BACKSLASH}
OCT_STRING(c) == c \in ch.ZERO..ch.SEVEN
ESC_STRING == [c \in {ch.b, ch.t, ch.n, ch.f, ch.r, ch.LPAREN, ch.RPAREN, ch.BACKSLASH} |->
                 CASE c = ch.b -> 8
                   [] c = ch.t -> 9
                   [] c = ch.n -> 10
                   [] c = ch.f -> 12
                   [] c = ch.r -> 13
                   [] OTHER -> c]

----------------------------------------------------------------------------
(* Python's sequence operations *)

\* s[j]
At(s, j) == s[j + 1]

\* s[i:j] for 0 <= i
Slice(s, i, j) == SubSeq(s, i + 1, IF j > Len(s) THEN Len(s) ELSE j)

\* s[i:]
From(s, i) == SubSeq(s, i + 1, Len(s))

\* pattern.search(s, i) for a one-byte pattern: the index of the first byte
\* of s at or after i that matches, -1 for no match
Search(pattern(_), s, i) ==
    LET M == {j \in i..(Len(s) - 1) : pattern(At(s, j))}
    IN  IF M = {} THEN -1 ELSE CHOOSE j \in M : \A k \in M : j <= k

\* pattern.match(c) for a one-byte pattern, c = s[i:i+1]
Match(pattern(_), c) == Len(c) = 1 /\ pattern(c[1])

\* F(v), with v evaluated once
Apply(F(_), v) == CHOOSE r \in {F(x) : x \in {v}} : TRUE

----------------------------------------------------------------------------
(* Conversions *)

\* int(c, 16) of one digit
HexDigit(c) ==
    IF isdigit(c) THEN c - ch.ZERO
    ELSE IF c \in ch.A..ch.F THEN c - ch.A + 10
    ELSE c - ch.a + 10

RECURSIVE Value(_, _, _)
\* int(s[:n], base) of the n digits s[:n]
Value(s, n, base) ==
    IF n = 0 THEN 0 ELSE base * Value(s, n - 1, base) + HexDigit(s[n])

\* int(s, 10) of digits
DecValue(s) == Value(s, Len(s), 10)

\* int(s, 16)
HexValue(s) == Value(s, Len(s), 16)

\* int(s, 8)
OctValue(s) == Value(s, Len(s), 8)

Unsigned(s) == IF s # <<>> /\ s[1] \in {ch.PLUS, ch.MINUS} THEN Tail(s) ELSE s

Sign(s) == IF s # <<>> /\ s[1] = ch.MINUS THEN -1 ELSE 1

\* int(s) raises no ValueError: an optional sign and one digit at least
IntOk(s) ==
    /\ Unsigned(s) # <<>>
    /\ \A i \in 1..Len(Unsigned(s)) : isdigit(Unsigned(s)[i])

\* int(s)
IntValue(s) == Sign(s) * DecValue(Unsigned(s))

\* float(s) raises no ValueError: an optional sign, digits with at most one
\* dot among them, and one digit at least
FloatOk(s) ==
    /\ \A i \in 1..Len(Unsigned(s)) : isdigit(Unsigned(s)[i]) \/ Unsigned(s)[i] = ch.DOT
    /\ Cardinality({i \in 1..Len(Unsigned(s)) : Unsigned(s)[i] = ch.DOT}) <= 1
    /\ \E i \in 1..Len(Unsigned(s)) : isdigit(Unsigned(s)[i])

RECURSIVE Normal(_, _)
\* the decimal m / 10^e without trailing zeros in its fraction
Normal(m, e) ==
    IF m = 0 THEN <<0, 0>>
    ELSE IF e > 0 /\ m % 10 = 0 THEN Normal(m \div 10, e - 1)
    ELSE <<m, e>>

IsDot(c) == c = ch.DOT

\* float(s), as the decimal it denotes: <<m, e>> is m / 10^e.  Exact for the
\* short accumulators of the model (fewer than 16 digits).
FloatValue(s) ==
    LET dot == Search(IsDot, Unsigned(s), 0)
        frac == IF dot = -1 THEN 0 ELSE Len(Unsigned(s)) - dot - 1
    IN  Normal(Sign(s) * DecValue(SelectSeq(Unsigned(s), isdigit)), frac)

RECURSIVE HEX_PAIR_sub(_, _)
\* HEX_PAIR.sub(lambda m: bytes((int(m.group(0), 16),)), s) from index i on,
\* for s made of hex digits: the pattern [0-9a-fA-F]{2}|. takes two digits
\* where two are left and the one left over alone
HEX_PAIR_sub(s, i) ==
    IF i >= Len(s) THEN <<>>
    ELSE IF i + 2 <= Len(s)
         THEN <<HexValue(Slice(s, i, i + 2))>> \o HEX_PAIR_sub(s, i + 2)
         ELSE <<HexValue(Slice(s, i, i + 1))>>

\* the bytes a UTF-8 sequence that starts with the byte b has, 0 where b
\* starts none
Utf8Len(b) ==
    CASE b < 128 -> 1
      [] b \in 194..223 -> 2
      [] b \in 224..239 -> 3
      [] b \in 240..244 -> 4
      [] OTHER -> 0

\* s[i:i+len] is a well-formed UTF-8 sequence (neither overlong nor a
\* surrogate nor beyond U+10FFFF)
Utf8Good(s, i, len) ==
    /\ len >= 1
    /\ i + len <= Len(s)
    /\ \A k \in 1..(len - 1) : At(s, i + k) \in 128..191
    /\ len >= 2 =>
         /\ At(s, i + 1) >= (CASE At(s, i) = 224 -> 160 [] At(s, i) = 240 -> 144 [] OTHER -> 128)
         /\ At(s, i + 1) <= (CASE At(s, i) = 237 -> 159 [] At(s, i) = 244 -> 143 [] OTHER -> 191)

RECURSIVE Utf8Point(_, _, _)
\* the code point of the well-formed sequence s[i:i+len], from its first k bytes
Utf8Point(s, i, k) ==
    IF k = 1
    THEN (CASE At(s, i) < 128 -> At(s, i)
            [] At(s, i) < 224 -> At(s, i) - 192
            [] At(s, i) < 240 -> At(s, i) - 224
            [] OTHER -> At(s, i) - 240)
    ELSE 64 * Utf8Point(s, i, k - 1) + (At(s, i + k - 1) - 128)

RECURSIVE Utf8From(_, _)
\* s[i:] is well-formed UTF-8
Utf8From(s, i) ==
    IF i >= Len(s) THEN TRUE
    ELSE Utf8Good(s, i, Utf8Len(At(s, i))) /\ Utf8From(s, i + Utf8Len(At(s, i)))

RECURSIVE Utf8Points(_, _)
\* the code points of s[i:], which is well-formed UTF-8
Utf8Points(s, i) ==
    IF i >= Len(s) THEN <<>>
    ELSE <<Utf8Point(s, i, Utf8Len(At(s, i)))>> \o Utf8Points(s, i + Utf8Len(At(s, i)))

\* str(s, "utf-8"): ok is FALSE where it raises UnicodeDecodeError, cp are
\* the code points
Utf8Decode(s) ==
    IF Utf8From(s, 0) THEN [ok |-> TRUE, cp |-> Utf8Points(s, 0)]
    ELSE [ok |-> FALSE, cp |-> <<>>]

----------------------------------------------------------------------------
(* Tokens.  An interned symbol is modelled by its payload: within one      *)
(* thread intern returns one instance per payload, so that the identity    *)
(* tests of the parser are tests of the payload.  The table itself, with   *)
(* the identities of its instances, is modelled further down.              *)

\* int(...)
Integer(v) == [type |-> "int", val |-> v]
\* float(...)
Real(v) == [type |-> "float", val |-> v]
Boolean(v) == [type |-> "bool", val |-> v]
\* a bytes object
ByteString(v) == [type |-> "bytes", val |-> v]
\* PSLiteralTable.intern(name): name is a str (its code points) or bytes
LIT(name, isstr) == [type |-> "PSLiteral", name |-> name, isstr |-> isstr]
\* PSKeywordTable.intern(name)
KWD(name) == [type |-> "PSKeyword", name |-> name]

KEYWORD_PROC_BEGIN == KWD(<<ch.LBRACE>>)
KEYWORD_PROC_END == KWD(<<ch.RBRACE>>)
KEYWORD_ARRAY_BEGIN == KWD(<<ch.LBRACKET>>)
KEYWORD_ARRAY_END == KWD(<<ch.RBRACKET>>)
KEYWORD_DICT_BEGIN == KWD(<<ch.LT, ch.LT>>)
KEYWORD_DICT_END == KWD(<<ch.GT, ch.GT>>)

----------------------------------------------------------------------------
(* PSBaseParser.  A method that changes the instance is an operator from   *)
(* the instance p to the changed instance; a handler returns the changed   *)
(* instance (self), the index it returns (ret) and the exception that      *)
(* left it (exc).                                                          *)

Returns(p, i) == [self |-> p, ret |-> i, exc |-> "none"]

Raises(p, e) == [self |-> p, ret |-> 0, exc |-> e]

\* self.bufpos + self.charpos
tell(p) == p.bufpos + p.charpos

\* A seek that leaves the handler and the accumulator as they are
seek_keeps_handler(p, pos) ==
    [p EXCEPT !.fp = [@ EXCEPT !.pos = pos],
              !.bufpos = pos,
              !.buf = <<>>,
              !.charpos = 0,
              !._curtokenpos = 0,
              !._tokens = <<>>,
              !.eof = FALSE]

\* PSBaseParser.seek: fp.seek(pos) and the tokenizer's state reset.  paren,
\* oct and hex are not assigned here: they keep what they held.
PSBaseParser_seek(p, pos) ==
    [p EXCEPT !.fp = [@ EXCEPT !.pos = pos],
              !.bufpos = pos,
              !.buf = <<>>,
              !.charpos = 0,
              !._parse1 = "_parse_main",
              !._curtoken = <<>>,
              !._curtokenpos = 0,
              !._tokens = <<>>,
              !.eof = FALSE]

\* fp.read(n) at the stream's position
Read(fp, n) == Slice(fp.data, fp.pos, fp.pos + n)

\* fillbuf: exc is PSEOF where the read returns no byte; bufpos and buf are
\* assigned before the raise and charpos is not
fillbuf(p) ==
    IF p.charpos < Len(p.buf) THEN [self |-> p, exc |-> "none"]
    ELSE LET chunk == Read(p.fp, p.BUFSIZ)
             q == [p EXCEPT !.bufpos = p.fp.pos,
                            !.buf = chunk,
                            !.fp = [@ EXCEPT !.pos = @ + Len(chunk)]]
         IN  IF chunk = <<>> THEN [self |-> q, exc |-> "PSEOF"]
             ELSE [self |-> [q EXCEPT !.charpos = 0], exc |-> "none"]

\* A token paired with the cursor at the time it is emitted
_add_token_at_cursor(p, obj) ==
    [p EXCEPT !._tokens = Append(@, <<p.bufpos + p.charpos, obj>>)]

\* A token paired with the offset of the buffer it was found in
_add_token_at_buffer(p, obj) == [p EXCEPT !._tokens = Append(@, <<p.bufpos, obj>>)]

_add_token(p, obj) == [p EXCEPT !._tokens = Append(@, <<p._curtokenpos, obj>>)]

_parse_main(p, s, i) ==
    LET j == Search(NONSPC, s, i)
        c == At(s, j)
        q == [p EXCEPT !._curtokenpos = p.bufpos + j]
    IN  IF j = -1 THEN Returns(p, Len(s))
        ELSE IF c = ch.PERCENT
             THEN Returns([q EXCEPT !._curtoken = <<ch.PERCENT>>,
                                    !._parse1 = "_parse_comment"], j + 1)
        ELSE IF c = ch.SLASH
             THEN Returns([q EXCEPT !._curtoken = <<>>,
                                    !._parse1 = "_parse_literal"], j + 1)
        ELSE IF c \in {ch.MINUS, ch.PLUS} \/ isdigit(c)
             THEN Returns([q EXCEPT !._curtoken = <<c>>,
                                    !._parse1 = "_parse_number"], j + 1)
        ELSE IF c = ch.DOT
             THEN Returns([q EXCEPT !._curtoken = <<c>>,
                                    !._parse1 = "_parse_float"], j + 1)
        ELSE IF isalpha(c)
             THEN Returns([q EXCEPT !._curtoken = <<c>>,
                                    !._parse1 = "_parse_keyword"], j + 1)
        ELSE IF c = ch.LPAREN
             THEN Returns([q EXCEPT !._curtoken = <<>>,
                                    !.paren = 1,
                                    !._parse1 = "_parse_string"], j + 1)
        ELSE IF c = ch.LT
             THEN Returns([q EXCEPT !._curtoken = <<>>,
                                    !._parse1 = "_parse_wopen"], j + 1)
        ELSE IF c = ch.GT
             THEN Returns([q EXCEPT !._curtoken = <<>>,
                                    !._parse1 = "_parse_wclose"], j + 1)
        ELSE IF c = ch.NUL
             THEN Returns(q, j + 1)
        ELSE Returns(_add_token(q, KWD(<<c>>)), j + 1)

_parse_comment(p, s, i) ==
    LET j == Search(EOL, s, i)
    IN  IF j = -1
        THEN Returns([p EXCEPT !._curtoken = @ \o From(s, i)], Len(s))
        ELSE Returns([p EXCEPT !._curtoken = @ \o Slice(s, i, j),
                               !._parse1 = "_parse_main"], j)

_parse_literal(p, s, i) ==
    LET j == Search(END_LITERAL, s, i)
        q == [p EXCEPT !._curtoken = @ \o Slice(s, i, j)]
        name == Utf8Decode(q._curtoken)
        lit == IF name.ok THEN LIT(name.cp, TRUE) ELSE LIT(q._curtoken, FALSE)
    IN  IF j = -1
        THEN Returns([p EXCEPT !._curtoken = @ \o From(s, i)], Len(s))
        ELSE IF At(s, j) = ch.HASH
             THEN Returns([q EXCEPT !.hex = <<>>,
                                    !._parse1 = "_parse_literal_hex"], j + 1)
        ELSE Returns([_add_token(q, lit) EXCEPT !._parse1 = "_parse_main"], j)

\* A #-escape that is decoded only when it has its two digits
_parse_literal_hex_pairs_only(p, s, i) ==
    LET c == Slice(s, i, i + 1)
        q == IF Len(p.hex) = 2
             THEN [p EXCEPT !._curtoken = Append(@, HexValue(p.hex))]
             ELSE p
    IN  IF Match(HEX, c) /\ Len(p.hex) < 2
        THEN Returns([p EXCEPT !.hex = @ \o c], i + 1)
        ELSE Returns([q EXCEPT !._parse1 = "_parse_literal"], i)

_parse_literal_hex(p, s, i) ==
    LET c == Slice(s, i, i + 1)
        q == IF p.hex # <<>>
             THEN [p EXCEPT !._curtoken = Append(@, HexValue(p.hex))]
             ELSE p
    IN  IF Match(HEX, c) /\ Len(p.hex) < 2
        THEN Returns([p EXCEPT !.hex = @ \o c], i + 1)
        ELSE Returns([q EXCEPT !._parse1 = "_parse_literal"], i)

_parse_number(p, s, i) ==
    LET j == Search(END_NUMBER, s, i)
        q == [p EXCEPT !._curtoken = @ \o Slice(s, i, j)]
    IN  IF j = -1
        THEN Returns([p EXCEPT !._curtoken = @ \o From(s, i)], Len(s))
        ELSE IF At(s, j) = ch.DOT
             THEN Returns([q EXCEPT !._curtoken = Append(@, ch.DOT),
                                    !._parse1 = "_parse_float"], j + 1)
        ELSE Returns([(IF IntOk(q._curtoken)
                       THEN _add_token(q, Integer(IntValue(q._curtoken)))
                       ELSE q)
                      EXCEPT !._parse1 = "_parse_main"], j)

_parse_float(p, s, i) ==
    LET j == Search(END_NUMBER, s, i)
        q == [p EXCEPT !._curtoken = @ \o Slice(s, i, j)]
    IN  IF j = -1
        THEN Returns([p EXCEPT !._curtoken = @ \o From(s, i)], Len(s))
        ELSE Returns([(IF FloatOk(q._curtoken)
                       THEN _add_token(q, Real(FloatValue(q._curtoken)))
                       ELSE q)
                      EXCEPT !._parse1 = "_parse_main"], j)

_parse_keyword(p, s, i) ==
    LET j == Search(END_KEYWORD, s, i)
        q == [p EXCEPT !._curtoken = @ \o Slice(s, i, j)]
        token == IF q._curtoken = <<ch.t, ch.r, ch.u, ch.e>> THEN Boolean(TRUE)
                 ELSE IF q._curtoken = <<ch.f, ch.a, ch.l, ch.s, ch.e>> THEN Boolean(FALSE)
                 ELSE KWD(q._curtoken)
    IN  IF j = -1
        THEN Returns([p EXCEPT !._curtoken = @ \o From(s, i)], Len(s))
        ELSE Returns([_add_token(q, token) EXCEPT !._parse1 = "_parse_main"], j)

\* A string handler that ends the string at the first right parenthesis
_parse_string_flat(p, s, i) ==
    LET j == Search(END_STRING, s, i)
        q == [p EXCEPT !._curtoken = @ \o Slice(s, i, j)]
        c == At(s, j)
    IN  IF j = -1
        THEN Returns([p EXCEPT !._curtoken = @ \o From(s, i)], Len(s))
        ELSE IF c = ch.BACKSLASH
             THEN Returns([q EXCEPT !.oct = <<>>,
                                    !._parse1 = "_parse_string_1"], j + 1)
        ELSE IF c = ch.LPAREN
             THEN Returns([q EXCEPT !.paren = @ + 1,
                                    !._curtoken = Append(@, c)], j + 1)
        ELSE Returns([_add_token(q, ByteString(q._curtoken))
                      EXCEPT !._parse1 = "_parse_main"], j + 1)

_parse_string(p, s, i) ==
    LET j == Search(END_STRING, s, i)
        q == [p EXCEPT !._curtoken = @ \o Slice(s, i, j)]
        c == At(s, j)
        closed == [q EXCEPT !.paren = @ - 1]
    IN  IF j = -1
        THEN Returns([p EXCEPT !._curtoken = @ \o From(s, i)], Len(s))
        ELSE IF c = ch.BACKSLASH
             THEN Returns([q EXCEPT !.oct = <<>>,
                                    !._parse1 = "_parse_string_1"], j + 1)
        ELSE IF c = ch.LPAREN
             THEN Returns([q EXCEPT !.paren = @ + 1,
                                    !._curtoken = Append(@, c)], j + 1)
        ELSE IF c = ch.RPAREN /\ closed.paren # 0
             THEN Returns([closed EXCEPT !._curtoken = Append(@, c)], j + 1)
        ELSE Returns([_add_token(closed, ByteString(closed._curtoken))
                      EXCEPT !._parse1 = "_parse_main"], j + 1)

\* The assert of the source raises AssertionError for an octal escape of 256
\* and more.
_parse_string_1(p, s, i) ==
    LET c == Slice(s, i, i + 1)
        chrcode == OctValue(p.oct)
    IN  IF Match(OCT_STRING, c) /\ Len(p.oct) < 3
        THEN Returns([p EXCEPT !.oct = @ \o c], i + 1)
        ELSE IF p.oct # <<>>
             THEN IF chrcode < 256
                  THEN Returns([p EXCEPT !._curtoken = Append(@, chrcode),
                                         !._parse1 = "_parse_string"], i)
                  ELSE Raises(p, "AssertionError")
        ELSE IF Len(c) = 1 /\ c[1] \in DOMAIN ESC_STRING
             THEN Returns([p EXCEPT !._curtoken = Append(@, ESC_STRING[c[1]]),
                                    !._parse1 = "_parse_string"], i + 1)
        ELSE IF c = <<ch.CR>> /\ Len(s) > i + 1 /\ Slice(s, i + 1, i + 2) = <<ch.LF>>
             THEN Returns([p EXCEPT !._parse1 = "_parse_string"], i + 2)
        ELSE Returns([p EXCEPT !._parse1 = "_parse_string"], i + 1)

_parse_wopen(p, s, i) ==
    LET c == Slice(s, i, i + 1)
    IN  IF c = <<ch.LT>>
        THEN Returns([_add_token(p, KEYWORD_DICT_BEGIN)
                      EXCEPT !._parse1 = "_parse_main"], i + 1)
        ELSE Returns([p EXCEPT !._parse1 = "_parse_hexstring"], i)

_parse_wclose(p, s, i) ==
    LET c == Slice(s, i, i + 1)
    IN  IF c = <<ch.GT>>
        THEN Returns([_add_token(p, KEYWORD_DICT_END)
                      EXCEPT !._parse1 = "_parse_main"], i + 1)
        ELSE Returns([p EXCEPT !._parse1 = "_parse_main"], i)

_parse_hexstring(p, s, i) ==
    LET j == Search(END_HEX_STRING, s, i)
        q == [p EXCEPT !._curtoken = @ \o Slice(s, i, j)]
        token == HEX_PAIR_sub(SelectSeq(q._curtoken, NONSPC), 0)
    IN  IF j = -1
        THEN Returns([p EXCEPT !._curtoken = @ \o From(s, i)], Len(s))
        ELSE Returns([_add_token(q, ByteString(token))
                      EXCEPT !._parse1 = "_parse_main"], j)

\* self._parse1(s, i)
_parse1(p, s, i) ==
    CASE p._parse1 = "_parse_main" -> _parse_main(p, s, i)
      [] p._parse1 = "_parse_comment" -> _parse_comment(p, s, i)
      [] p._parse1 = "_parse_literal" -> _parse_literal(p, s, i)
      [] p._parse1 = "_parse_literal_hex" -> _parse_literal_hex(p, s, i)
      [] p._parse1 = "_parse_number" -> _parse_number(p, s, i)
      [] p._parse1 = "_parse_float" -> _parse_float(p, s, i)
      [] p._parse1 = "_parse_keyword" -> _parse_keyword(p, s, i)
      [] p._parse1 = "_parse_string" -> _parse_string(p, s, i)
      [] p._parse1 = "_parse_string_1" -> _parse_string_1(p, s, i)
      [] p._parse1 = "_parse_wopen" -> _parse_wopen(p, s, i)
      [] p._parse1 = "_parse_wclose" -> _parse_wclose(p, s, i)
      [] p._parse1 = "_parse_hexstring" -> _parse_hexstring(p, s, i)

\* The try block of nexttoken after a fillbuf that has raised nothing (f is
\* the instance then).  An exception of the handler leaves before charpos
\* is assigned.
nexttoken_try(f) ==
    LET assign(h) ==
            IF h.exc = "none"
            THEN [self |-> [h.self EXCEPT !.charpos = h.ret], exc |-> "none"]
            ELSE [self |-> h.self, exc |-> h.exc]
    IN  Apply(assign, _parse1(f, f.buf, f.charpos))

\* The except clause of nexttoken (f is the instance fillbuf has left):
\* PSEOF is raised again when the flush has produced no token
nexttoken_except(f) ==
    LET assign(g) ==
            IF g.exc # "none" THEN [self |-> g.self, exc |-> g.exc]
            ELSE [self |-> [g.self EXCEPT !.charpos = g.ret, !.eof = TRUE],
                  exc |-> IF g.self._tokens = <<>> THEN "PSEOF" ELSE "none"]
    IN  Apply(assign, _parse1(f, <<ch.LF>>, 0))

\* One pass of the loop of nexttoken
nexttoken_pass(p) ==
    LET after(f) ==
            IF f.exc = "none" THEN nexttoken_try(f.self) ELSE nexttoken_except(f.self)
    IN  Apply(after, fillbuf(p))

\* The end of nexttoken: self._tokens.pop(0)
pop_token(p) == [self |-> [p EXCEPT !._tokens = Tail(@)], token |-> Head(p._tokens)]

RECURSIVE nexttoken_loop(_)
\* while not self._tokens: ...; then the pop
nexttoken_loop(p) ==
    LET again(it) ==
            IF it.exc # "none"
            THEN [self |-> it.self, exc |-> it.exc, token |-> <<>>]
            ELSE nexttoken_loop(it.self)
    IN  IF p._tokens # <<>>
        THEN [self |-> pop_token(p).self, exc |-> "none", token |-> pop_token(p).token]
        ELSE Apply(again, nexttoken_pass(p))

\* A whole call of nexttoken
nexttoken(p) ==
    IF p.eof THEN [self |-> p, exc |-> "PSEOF", token |-> <<>>]
    ELSE nexttoken_loop(p)

RECURSIVE scan(_, _)
\* nexttoken called again and again until it raises: the tokens it has
\* returned after acc, and the exception
scan(p, acc) ==
    LET more(r) ==
            IF r.exc # "none" THEN [tokens |-> acc, exc |-> r.exc]
            ELSE scan(r.self, Append(acc, r.token))
    IN  Apply(more, nexttoken(p))

----------------------------------------------------------------------------
(* Helpers of the stack parser *)

RECURSIVE DecDigits(_)
\* the decimal digits of a natural number
DecDigits(n) ==
    IF n < 10 THEN <<ch.ZERO + n>>
    ELSE Append(DecDigits(n \div 10), ch.ZERO + (n % 10))

\* A str, by its code points
Str(cp) == [type |-> "str", val |-> cp]

\* str(x) of a value that is no PSLiteral.  The text of an int and of a bool
\* is spelled out; the text Python renders for any other value is kept as
\* "the rendering of x" (type repr), equal for equal values.
PyStr(x) ==
    CASE x.type = "int" ->
           Str(IF x.val < 0 THEN <<ch.MINUS>> \o DecDigits(-x.val) ELSE DecDigits(x.val))
      [] x.type = "bool" ->
           Str(IF x.val THEN <<ch.T, ch.r, ch.u, ch.e>> ELSE <<ch.F, ch.a, ch.l, ch.s, ch.e>>)
      [] OTHER -> [type |-> "repr", of |-> x]

\* A literal_name that raises for a value that is no PSLiteral, strict or not
literal_name_names_only(x, strict) ==
    IF x.type = "PSLiteral"
    THEN IF x.isstr THEN [exc |-> "none", val |-> Str(x.name)]
         ELSE IF Utf8Decode(x.name).ok
              THEN [exc |-> "none", val |-> Str(Utf8Decode(x.name).cp)]
              ELSE [exc |-> "none", val |-> PyStr(ByteString(x.name))]
    ELSE [exc |-> "PSTypeError", val |-> Str(<<>>)]

\* literal_name(x): exc is PSTypeError where it raises
literal_name(x, strict) ==
    IF x.type = "PSLiteral"
    THEN IF x.isstr THEN [exc |-> "none", val |-> Str(x.name)]
         ELSE IF Utf8Decode(x.name).ok
              THEN [exc |-> "none", val |-> Str(Utf8Decode(x.name).cp)]
              ELSE [exc |-> "none", val |-> PyStr(ByteString(x.name))]
    ELSE IF strict THEN [exc |-> "PSTypeError", val |-> Str(<<>>)]
         ELSE [exc |-> "none", val |-> PyStr(x)]

\* utils.choplist(n, seq): the consecutive windows of n items; items left
\* over at the end are dropped
choplist(n, seq) ==
    [k \in 1..(Len(seq) \div n) |-> SubSeq(seq, (k - 1) * n + 1, k * n)]

\* d[k] = v on a dict kept as its (key, value) pairs in insertion order
DictPut(d, k, v) ==
    IF \E i \in 1..Len(d) : d[i][1] = k
    THEN [i \in 1..Len(d) |-> IF d[i][1] = k THEN <<k, v>> ELSE d[i]]
    ELSE Append(d, <<k, v>>)

RECURSIVE DictOf(_, _, _)
\* {literal_name(k): v for (k, v) in pairs[:n] if v is not None}, given that
\* no literal_name raises; no value of this parser is None
DictOf(pairs, n, strict) ==
    LET put(d) == DictPut(d, literal_name(pairs[n][1], strict).val, pairs[n][2])
    IN  IF n = 0 THEN <<>> ELSE Apply(put, DictOf(pairs, n - 1, strict))

List(objs) == [type |-> "list", val |-> objs]

Dict(d) == [type |-> "dict", val |-> d]

----------------------------------------------------------------------------
(* PSStackParser *)

reset(p) ==
    [p EXCEPT !.context = <<>>,
              !.curtype = "None",
              !.curstack = <<>>,
              !.results = <<>>]

\* PSStackParser.seek
seek(p, pos) == reset(PSBaseParser_seek(p, pos))

\* push(obj) with one object
push(p, obj) == [p EXCEPT !.curstack = Append(@, obj)]

\* A start_type that does not keep the items of the builder it suspends
start_type_forgets(p, pos, type) ==
    [p EXCEPT !.context = Append(@, <<pos, p.curtype, <<>>>>),
              !.curtype = type,
              !.curstack = <<>>]

start_type(p, pos, type) ==
    [p EXCEPT !.context = Append(@, <<pos, p.curtype, p.curstack>>),
              !.curtype = type,
              !.curstack = <<>>]

\* An end_type that closes the innermost builder whatever its kind
end_type_any_kind(p, type) ==
    LET top == p.context[Len(p.context)]
    IN  IF p.context = <<>>
        THEN [self |-> p, exc |-> "PSTypeError", pos |-> 0, objs |-> <<>>]
        ELSE [self |-> [p EXCEPT !.context = SubSeq(@, 1, Len(@) - 1),
                                 !.curtype = top[2],
                                 !.curstack = top[3]],
              exc |-> "none",
              pos |-> top[1],
              objs |-> [k \in 1..Len(p.curstack) |-> p.curstack[k][2]]]

\* end_type: exc is PSTypeError where the innermost builder is of another
\* kind; otherwise pos and objs are what it returns.  With curtype equal to
\* type the context is not empty, since curtype is None exactly then.
end_type(p, type) ==
    LET top == p.context[Len(p.context)]
    IN  IF p.curtype # type
        THEN [self |-> p, exc |-> "PSTypeError", pos |-> 0, objs |-> <<>>]
        ELSE [self |-> [p EXCEPT !.context = SubSeq(@, 1, Len(@) - 1),
                                 !.curtype = top[2],
                                 !.curstack = top[3]],
              exc |-> "none",
              pos |-> top[1],
              objs |-> [k \in 1..Len(p.curstack) |-> p.curstack[k][2]]]

\* The branches of nextobject that end an array and a proc
end_list(p, type, strict) ==
    LET pushed(e) ==
            IF e.exc = "none"
            THEN [self |-> push(e.self, <<e.pos, List(e.objs)>>), exc |-> "none"]
            ELSE [self |-> p, exc |-> IF strict THEN e.exc ELSE "none"]
    IN  Apply(pushed, end_type(p, type))

\* A dictionary branch whose except clause catches the parity error too
end_dict_catches_parity(p, strict) ==
    LET keyfails(pairs) ==
            \E k \in 1..Len(pairs) : literal_name(pairs[k][1], strict).exc # "none"
        built(e) ==
            IF e.exc # "none"
            THEN [self |-> p, exc |-> IF strict THEN e.exc ELSE "none"]
            ELSE IF Len(e.objs) % 2 # 0
                 THEN [self |-> e.self, exc |-> IF strict THEN "PSSyntaxError" ELSE "none"]
            ELSE IF keyfails(choplist(2, e.objs))
                 THEN [self |-> e.self, exc |-> IF strict THEN "PSTypeError" ELSE "none"]
            ELSE [self |-> push(e.self,
                                <<e.pos, Dict(DictOf(choplist(2, e.objs),
                                                     Len(e.objs) \div 2, strict))>>),
                  exc |-> "none"]
    IN  Apply(built, end_type(p, "d"))

\* The branch of nextobject that ends a dictionary.  PSSyntaxError is no
\* PSTypeError: the except clause does not catch it.
end_dict(p, strict) ==
    LET keyfails(pairs) ==
            \E k \in 1..Len(pairs) : literal_name(pairs[k][1], strict).exc # "none"
        built(e) ==
            IF e.exc # "none"
            THEN [self |-> p, exc |-> IF strict THEN e.exc ELSE "none"]
            ELSE IF Len(e.objs) % 2 # 0
                 THEN [self |-> e.self, exc |-> "PSSyntaxError"]
            ELSE IF keyfails(choplist(2, e.objs))
                 THEN [self |-> e.self, exc |-> IF strict THEN "PSTypeError" ELSE "none"]
            ELSE [self |-> push(e.self,
                                <<e.pos, Dict(DictOf(choplist(2, e.objs),
                                                     Len(e.objs) \div 2, strict))>>),
                  exc |-> "none"]
    IN  Apply(built, end_type(p, "d"))

\* The body of the loop of nextobject for one (pos, token), up to the test
\* of self.context
dispatch(p, pos, token, strict) ==
    IF token.type \in {"int", "float", "bool", "str", "bytes", "PSLiteral"}
    THEN [self |-> push(p, <<pos, token>>), exc |-> "none"]
    ELSE IF token = KEYWORD_ARRAY_BEGIN
         THEN [self |-> start_type(p, pos, "a"), exc |-> "none"]
    ELSE IF token = KEYWORD_ARRAY_END THEN end_list(p, "a", strict)
    ELSE IF token = KEYWORD_DICT_BEGIN
         THEN [self |-> start_type(p, pos, "d"), exc |-> "none"]
    ELSE IF token = KEYWORD_DICT_END THEN end_dict(p, strict)
    ELSE IF token = KEYWORD_PROC_BEGIN
         THEN [self |-> start_type(p, pos, "p"), exc |-> "none"]
    ELSE IF token = KEYWORD_PROC_END THEN end_list(p, "p", strict)
    ELSE IF token.type = "PSKeyword" THEN [self |-> p, exc |-> "none"]
    ELSE [self |-> p, exc |-> "PSException"]

----------------------------------------------------------------------------
(* The inputs: every byte string of a few small families, and the literal  *)
(* inputs of the specification's scenarios                                 *)

\* the sequences over S of length n at most
SeqsUpTo(S, n) == UNION {[1..k -> S] : k \in 0..n}

RECURSIVE Concat(_)
\* the concatenation of a sequence of sequences
Concat(ss) == IF ss = <<>> THEN <<>> ELSE Head(ss) \o Concat(Tail(ss))

StrInputs ==
    {<<ch.LPAREN>> \o b :
        b \in SeqsUpTo({ch.LPAREN, ch.RPAREN, ch.BACKSLASH, ch.CR, ch.LF, ch.SEVEN},
                       MaxStrBody)}

NameInputs ==
    {<<ch.SLASH>> \o b : b \in SeqsUpTo({ch.HASH, ch.TWO, ch.G, ch.SP}, MaxNameBody)}

NumInputs == SeqsUpTo({ch.PLUS, ch.MINUS, ch.ONE, ch.DOT, ch.SP}, MaxNumLen)

HexInputs ==
    {<<ch.LT>> \o b : b \in SeqsUpTo({ch.FOUR, ch.f, ch.SP, ch.GT, ch.LT}, MaxHexBody)}

MiscInputs ==
    SeqsUpTo({ch.a, ch.SP, ch.PERCENT, ch.LF, ch.NUL, ch.RBRACE}, MaxMiscLen)

Lexemes == {<<ch.LBRACKET>>, <<ch.RBRACKET>>, <<ch.LT, ch.LT>>, <<ch.GT, ch.GT>>,
            <<ch.ONE, ch.SP>>, <<ch.SLASH, ch.K, ch.SP>>}

ObjInputs == {Concat(ls) : ls \in SeqsUpTo(Lexemes, MaxObjToks)}

Scenarios ==
    { <<47, 65, 35, 50, 48, 66>>,                                \* /A#20B
      <<40, 102, 111, 111, 92, 13, 10, 98, 97, 114, 41>>,        \* (foo\<CR><LF>bar)
      <<40, 32, 97, 32, 40, 32, 98, 32, 41, 32, 99, 32, 41>>,    \* ( a ( b ) c )
      <<60, 32, 48, 97, 32, 62>>,                                \* < 0a >
      <<60, 60, 32, 47, 75, 32, 49, 32, 47, 86, 32, 62, 62>>,    \* << /K 1 /V >>
      <<60, 60, 47, 75, 32, 116, 114, 117, 101, 62, 62>>,        \* <</K true>>
      <<91, 49, 93, 32, 120, 32, 93>>,                           \* [1] x ]
      <<123, 49, 32, 91, 125, 93, 125>>,                         \* {1 [}]}
      <<91, 37, 99, 10, 49, 93>>,                                \* [%c<LF>1]
      <<51, 46, 49, 52, 32, 102, 97, 108, 115, 101>> }           \* 3.14 false

\* dictionaries whose key item is no name
KeyInputs ==
    { <<60, 60, 49, 32, 47, 75, 62, 62>>,                        \* <<1 /K>>
      <<60, 60, 40, 97, 41, 32, 49, 62, 62>> }                   \* <<(a) 1>>

\* inputs that end inside a token or inside an open builder
Interrupted ==
    { <<40, 92, 52, 48, 48, 41, 32, 49, 32>>,                    \* (\400) 1
      <<91, 32, 47, 65, 35, 50>>,                                \* [ /A#2
      <<60, 60, 32, 40, 97>>,                                    \* << (a
      <<49, 32, 60, 52>>,                                        \* 1 <4
      <<123, 32, 49, 32, 37, 99>> }                              \* { 1 %c

\* the inputs of the tokenizer
Inputs ==
    StrInputs \cup NameInputs \cup NumInputs \cup HexInputs \cup MiscInputs
    \cup Scenarios

Bufsizes == (1..MaxBufsiz) \cup {BUFSIZ}

\* the stack parser reads through the tokenizer: one byte per buffer and the
\* program's BUFSIZ
ObjBufsizes == {1, BUFSIZ}

----------------------------------------------------------------------------
(* The state machine of one parser *)

\* PSStackParser(fp): PSBaseParser.__init__ and reset.  paren, oct and hex
\* do not exist before _parse_main, _parse_string and _parse_literal assign
\* them, and none is read before that; they start as 0 and empty here.
NewParser(data, bufsiz) ==
    seek([fp |-> [data |-> data, pos |-> 0],
          BUFSIZ |-> bufsiz,
          eof |-> FALSE,
          bufpos |-> 0,
          buf |-> <<>>,
          charpos |-> 0,
          _parse1 |-> "_parse_main",
          _curtoken |-> <<>>,
          _curtokenpos |-> 0,
          _tokens |-> <<>>,
          paren |-> 0,
          oct |-> <<>>,
          hex |-> <<>>,
          context |-> <<>>,
          curtype |-> "None",
          curstack |-> <<>>,
          results |-> <<>>], 0)

Ended(op, exc, val) == [op |-> op, exc |-> exc, val |-> val]

Threads == 1..MaxThreads

InternIdle ==
    /\ table = <<>>
    /\ thread = [t \in Threads |-> [at |-> "idle", name |-> <<>>, lit |-> 0]]
    /\ nextid = 1
    /\ handed = {}

intern_vars == <<table, thread, nextid, handed>>

parser_vars == <<parser, STRICT, pc, ret, out, origin, rescan>>

line_vars == <<frame, yielded>>

\* The locals of nextline (linebuf, linepos, eol) and of revreadlines (pos,
\* s, buf; at is where the generator stands) before either has run
NoFrame ==
    [linebuf |-> <<>>, linepos |-> 0, eol |-> FALSE,
     at |-> "none", pos |-> 0, s |-> <<>>, buf |-> <<>>]

Start(inputs, bufsizes, stricts) ==
    /\ \E data \in inputs, bufsiz \in bufsizes : parser = NewParser(data, bufsiz)
    /\ STRICT \in stricts
    /\ pc = "idle"
    /\ ret = Ended("__init__", "none", <<>>)
    /\ out = <<>>
    /\ origin = 0
    /\ rescan = FALSE
    /\ frame = NoFrame
    /\ yielded = <<>>
    /\ flushed = 0
    /\ InternIdle

\* A tokenizer on any input; settings.STRICT, which the tokenizer does not
\* read, has its default
Init == Start(Inputs, Bufsizes, {FALSE})

\* A stack parser on an input of structural lexemes, strict or lenient
InitObj ==
    Start(ObjInputs \cup Scenarios \cup Interrupted \cup KeyInputs, ObjBufsizes, BOOLEAN)

\* seek(pos) by the caller, who is done with what nextline and revreadlines
\* have given
Seek ==
    /\ pc = "idle"
    /\ \E pos \in 0..MaxSeek :
          /\ parser' = seek(parser, pos)
          /\ origin' = pos
          /\ ret' = Ended("seek", "none", <<pos>>)
    /\ out' = <<>>
    /\ rescan' = (rescan \/ ret.op # "__init__")
    /\ frame' = NoFrame
    /\ yielded' = <<>>
    /\ flushed' = 0
    /\ UNCHANGED <<STRICT, pc, intern_vars>>

\* nexttoken is called: the test of self.eof
CallNextToken ==
    /\ pc = "idle"
    /\ IF parser.eof
       THEN /\ ret' = Ended("nexttoken", "PSEOF", <<>>)
            /\ pc' = "idle"
       ELSE /\ ret' = Ended("nexttoken", "running", <<>>)
            /\ pc' = "nexttoken"
    /\ UNCHANGED <<parser, STRICT, out, origin, rescan, intern_vars, line_vars, flushed>>

\* One pass of the loop of nexttoken
Pass ==
    /\ pc \in {"nexttoken", "nextobject"}
    /\ parser._tokens = <<>>
    /\ \E it \in {nexttoken_pass(parser)} :
          /\ parser' = it.self
          /\ IF it.exc = "none"
             THEN UNCHANGED <<pc, ret>>
             ELSE /\ pc' = "idle"
                  /\ ret' = Ended(pc, it.exc, <<>>)
    /\ UNCHANGED <<STRICT, out, origin, rescan, intern_vars, line_vars, flushed>>

\* The pass with each handler
ParseMain ==
    /\ parser._parse1 = "_parse_main"
    /\ Pass

ParseComment ==
    /\ parser._parse1 = "_parse_comment"
    /\ Pass

ParseLiteral ==
    /\ parser._parse1 = "_parse_literal"
    /\ Pass

ParseLiteralHex ==
    /\ parser._parse1 = "_parse_literal_hex"
    /\ Pass

ParseNumber ==
    /\ parser._parse1 = "_parse_number"
    /\ Pass

ParseFloat ==
    /\ parser._parse1 = "_parse_float"
    /\ Pass

ParseKeyword ==
    /\ parser._parse1 = "_parse_keyword"
    /\ Pass

ParseString ==
    /\ parser._parse1 = "_parse_string"
    /\ Pass

ParseString1 ==
    /\ parser._parse1 = "_parse_string_1"
    /\ Pass

ParseWopen ==
    /\ parser._parse1 = "_parse_wopen"
    /\ Pass

ParseWclose ==
    /\ parser._parse1 = "_parse_wclose"
    /\ Pass

ParseHexstring ==
    /\ parser._parse1 = "_parse_hexstring"
    /\ Pass

\* nexttoken returns the token it pops
ReturnToken ==
    /\ pc = "nexttoken"
    /\ parser._tokens # <<>>
    /\ \E t \in {pop_token(parser)} :
          /\ parser' = t.self
          /\ ret' = Ended("nexttoken", "none", t.token)
          /\ out' = Append(out, t.token)
    /\ pc' = "idle"
    /\ UNCHANGED <<STRICT, origin, rescan, intern_vars, line_vars, flushed>>

\* The test of the loop of nextobject and what follows it: a result is
\* popped and returned, or nexttoken is called, which raises PSEOF when eof
\* is set
nextobject_loop(p, running) ==
    IF p.results # <<>>
    THEN [self |-> [p EXCEPT !.results = Tail(@)],
          pc |-> "idle",
          ret |-> Ended("nextobject", "none", Head(p.results))]
    ELSE IF p.eof
         THEN [self |-> p, pc |-> "idle", ret |-> Ended("nextobject", "PSEOF", <<>>)]
    ELSE [self |-> p, pc |-> "nextobject", ret |-> running]

\* nextobject is called
CallNextObject ==
    /\ pc = "idle"
    /\ \E n \in {nextobject_loop(parser, Ended("nextobject", "running", <<>>))} :
          /\ parser' = n.self
          /\ pc' = n.pc
          /\ ret' = n.ret
    /\ UNCHANGED <<STRICT, out, origin, rescan, intern_vars, line_vars, flushed>>

\* PSBaseParser.flush, the hook nextobject calls: it does nothing
flush(p) == p

\* A loop body that calls flush after every token, builder open or not
after_dispatch_always(p) == [self |-> flush(p), calls |-> 1]

\* The end of the loop body of nextobject: continue with a builder open,
\* else the call of flush; calls is the number of calls of flush made
after_dispatch(p) ==
    IF p.context # <<>> THEN [self |-> p, calls |-> 0]
    ELSE [self |-> flush(p), calls |-> 1]

\* nextobject has its token from nexttoken and dispatches it; with the
\* context empty it calls flush, and it goes round its loop
DispatchToken ==
    /\ pc = "nextobject"
    /\ parser._tokens # <<>>
    /\ \E t \in {pop_token(parser)} :
          /\ out' = Append(out, t.token)
          /\ \E d \in {dispatch(t.self, t.token[1], t.token[2], STRICT)} :
                IF d.exc # "none"
                THEN /\ parser' = d.self
                     /\ pc' = "idle"
                     /\ ret' = Ended("nextobject", d.exc, <<>>)
                     /\ UNCHANGED flushed
                ELSE \E a \in {after_dispatch(d.self)} :
                     \E n \in {nextobject_loop(a.self, ret)} :
                        /\ parser' = n.self
                        /\ pc' = n.pc
                        /\ ret' = n.ret
                        /\ flushed' = flushed + a.calls
    /\ UNCHANGED <<STRICT, origin, rescan, intern_vars, line_vars>>

\* The calls a caller of the tokenizer makes, and their steps
Next ==
    \/ Seek
    \/ CallNextToken
    \/ ParseMain
    \/ ParseComment
    \/ ParseLiteral
    \/ ParseLiteralHex
    \/ ParseNumber
    \/ ParseFloat
    \/ ParseKeyword
    \/ ParseString
    \/ ParseString1
    \/ ParseWopen
    \/ ParseWclose
    \/ ParseHexstring
    \/ ReturnToken

\* The calls a caller of the stack parser makes, and their steps
NextObj ==
    \/ Next
    \/ CallNextObject
    \/ DispatchToken

Spec == Init /\ [][Next]_vars

SpecObj == InitObj /\ [][NextObj]_vars

-----------------------------------------------------------------------------
(* nextline and revreadlines.  nextline runs its loop one pass per step;   *)
(* revreadlines is a generator, taken by its caller from the first chunk   *)
(* to the end, one pass of its outer or of its inner loop per step.        *)

\* streams of lines: every byte string over a letter, CR and LF
MaxLineLen == 4

LineInputs == SeqsUpTo({ch.a, ch.CR, ch.LF}, MaxLineLen)

\* s.rfind(c) for one byte c
rfind(s, c) ==
    LET M == {j \in 0..(Len(s) - 1) : At(s, j) = c}
    IN  IF M = {} THEN -1 ELSE CHOOSE j \in M : \A k \in M : k <= j

\* max(a, b)
max(a, b) == IF a >= b THEN a ELSE b

\* One pass of the loop of nextline with the locals f: exc is PSEOF where
\* fillbuf raises, done where the loop is left by break
nextline_pass(p, f) ==
    LET body(b) ==
            LET q == b.self
                c == Slice(q.buf, q.charpos, q.charpos + 1)
                j == Search(EOL, q.buf, q.charpos)
            IN  IF b.exc # "none"
                THEN [self |-> q, frame |-> f, exc |-> b.exc, done |-> FALSE]
                ELSE IF f.eol
                THEN IF c = <<ch.LF>>
                     THEN [self |-> [q EXCEPT !.charpos = @ + 1],
                           frame |-> [f EXCEPT !.linebuf = @ \o c],
                           exc |-> "none", done |-> TRUE]
                     ELSE [self |-> q, frame |-> f, exc |-> "none", done |-> TRUE]
                ELSE IF j # -1
                THEN [self |-> [q EXCEPT !.charpos = j + 1],
                      frame |-> [f EXCEPT !.linebuf = @ \o Slice(q.buf, q.charpos, j + 1),
                                          !.eol = (At(q.buf, j) = ch.CR)],
                      exc |-> "none", done |-> At(q.buf, j) # ch.CR]
                ELSE [self |-> [q EXCEPT !.charpos = Len(q.buf)],
                      frame |-> [f EXCEPT !.linebuf = @ \o From(q.buf, q.charpos)],
                      exc |-> "none", done |-> FALSE]
    IN  Apply(body, fillbuf(p))

\* nextline is called: its locals before the loop
CallNextLine ==
    /\ pc = "idle"
    /\ pc' = "nextline"
    /\ ret' = Ended("nextline", "running", <<>>)
    /\ frame' = [frame EXCEPT !.linebuf = <<>>, !.linepos = tell(parser), !.eol = FALSE]
    /\ UNCHANGED <<parser, STRICT, out, origin, rescan, yielded, intern_vars, flushed>>

\* One pass of the loop of nextline, and the return after the break
NextLinePass ==
    /\ pc = "nextline"
    /\ \E it \in {nextline_pass(parser, frame)} :
          /\ parser' = it.self
          /\ frame' = it.frame
          /\ IF it.exc # "none"
             THEN /\ pc' = "idle"
                  /\ ret' = Ended("nextline", it.exc, <<>>)
             ELSE IF it.done
             THEN /\ pc' = "idle"
                  /\ ret' = Ended("nextline", "none", <<it.frame.linepos, it.frame.linebuf>>)
             ELSE UNCHANGED <<pc, ret>>
    /\ UNCHANGED <<STRICT, out, origin, rescan, yielded, intern_vars, flushed>>

\* revreadlines is started: the seek to the end of the stream
RevStart ==
    /\ pc = "idle"
    /\ pc' = "revreadlines"
    /\ ret' = Ended("revreadlines", "running", <<>>)
    /\ parser' = [parser EXCEPT !.fp = [@ EXCEPT !.pos = Len(parser.fp.data)]]
    /\ frame' = [frame EXCEPT !.at = "outer", !.pos = Len(parser.fp.data),
                              !.s = <<>>, !.buf = <<>>]
    /\ yielded' = <<>>
    /\ UNCHANGED <<STRICT, out, origin, rescan, intern_vars, flushed>>

\* The test of the outer loop of revreadlines and the read of one block;
\* the generator ends where pos is 0 or the read returns no byte
RevOuter ==
    /\ pc = "revreadlines"
    /\ frame.at = "outer"
    /\ IF frame.pos > 0
       THEN \E pos \in {max(0, frame.pos - parser.BUFSIZ)} :
            \E s \in {Read([parser.fp EXCEPT !.pos = pos], frame.pos - pos)} :
               /\ parser' = [parser EXCEPT !.fp = [@ EXCEPT !.pos = pos + Len(s)]]
               /\ IF s = <<>>
                  THEN /\ pc' = "idle"
                       /\ ret' = Ended("revreadlines", "StopIteration", <<>>)
                       /\ frame' = [frame EXCEPT !.pos = pos, !.s = s]
                  ELSE /\ frame' = [frame EXCEPT !.at = "inner", !.pos = pos, !.s = s]
                       /\ UNCHANGED <<pc, ret>>
       ELSE /\ pc' = "idle"
            /\ ret' = Ended("revreadlines", "StopIteration", <<>>)
            /\ UNCHANGED <<parser, frame>>
    /\ UNCHANGED <<STRICT, out, origin, rescan, yielded, intern_vars, flushed>>

\* One pass of the inner loop of revreadlines: a chunk is yielded from the
\* last CR or LF of s on, or s goes to buf; the chunk is kept with the
\* offset of its first byte, pos + n
RevInner ==
    /\ pc = "revreadlines"
    /\ frame.at = "inner"
    /\ \E n \in {max(rfind(frame.s, ch.CR), rfind(frame.s, ch.LF))} :
          IF n = -1
          THEN /\ frame' = [frame EXCEPT !.at = "outer", !.buf = frame.s \o @]
               /\ UNCHANGED yielded
          ELSE /\ yielded' = Append(yielded, <<frame.pos + n, From(frame.s, n) \o frame.buf>>)
               /\ frame' = [frame EXCEPT !.s = Slice(frame.s, 0, n), !.buf = <<>>]
    /\ UNCHANGED <<parser, STRICT, pc, ret, out, origin, rescan, intern_vars, flushed>>

\* A parser on a stream of lines
InitLine == Start(LineInputs, Bufsizes, {FALSE})

NextLine ==
    \/ Seek
    \/ CallNextLine
    \/ NextLinePass
    \/ RevStart
    \/ RevOuter
    \/ RevInner

SpecLine == InitLine /\ [][NextLine]_vars

----------------------------------------------------------------------------
(* PSSymbolTable.intern with several callers.  The interpreter may switch  *)
(* threads between any two of the steps of intern: the test of the dict,   *)
(* the read of the entry, the construction of the instance, the store      *)
(* into the dict.  An instance is modelled by its identity, a number.      *)

Payloads == {<<ch.A>>, <<ch.B>>}

At_(t, at) == thread[t].at = at

\* A thread calls intern(name)
InternCall ==
    /\ \E t \in Threads, name \in Payloads :
          /\ At_(t, "idle")
          /\ thread' = [thread EXCEPT ![t] = [at |-> "test", name |-> name, lit |-> 0]]
    /\ UNCHANGED <<table, nextid, handed, parser_vars, line_vars, flushed>>

\* if name in self.dict
InternTest ==
    /\ \E t \in Threads :
          /\ At_(t, "test")
          /\ thread' = [thread EXCEPT ![t].at =
                           IF thread[t].name \in DOMAIN table THEN "get" ELSE "new"]
    /\ UNCHANGED <<table, nextid, handed, parser_vars, line_vars, flushed>>

\* lit = self.dict[name]
InternGet ==
    /\ \E t \in Threads :
          /\ At_(t, "get")
          /\ thread' = [thread EXCEPT ![t].at = "return",
                                      ![t].lit = table[thread[t].name]]
    /\ UNCHANGED <<table, nextid, handed, parser_vars, line_vars, flushed>>

\* lit = self.klass(name)
InternNew ==
    /\ \E t \in Threads :
          /\ At_(t, "new")
          /\ thread' = [thread EXCEPT ![t].at = "store", ![t].lit = nextid]
    /\ nextid' = nextid + 1
    /\ UNCHANGED <<table, handed, parser_vars, line_vars, flushed>>

\* self.dict[name] = lit
dict_store(d, name, lit) ==
    [k \in DOMAIN d \cup {name} |-> IF k = name THEN lit ELSE d[k]]

InternStore ==
    /\ \E t \in Threads :
          /\ At_(t, "store")
          /\ table' = dict_store(table, thread[t].name, thread[t].lit)
          /\ thread' = [thread EXCEPT ![t].at = "return"]
    /\ UNCHANGED <<nextid, handed, parser_vars, line_vars, flushed>>

\* return lit
InternReturn ==
    /\ \E t \in Threads :
          /\ At_(t, "return")
          /\ handed' = handed \cup {<<thread[t].name, thread[t].lit>>}
          /\ thread' = [thread EXCEPT ![t].at = "done"]
    /\ UNCHANGED <<table, nextid, parser_vars, line_vars, flushed>>

\* No parser runs beside the callers of intern
InitIntern == Start({<<>>}, {BUFSIZ}, {FALSE})

NextIntern ==
    \/ InternCall
    \/ InternTest
    \/ InternGet
    \/ InternNew
    \/ InternStore
    \/ InternReturn

SpecIntern == InitIntern /\ [][NextIntern]_vars

----------------------------------------------------------------------------
(* The properties.  The tokens a fresh instance returns are the reference  *)
(* a running instance is compared with.                                    *)

\* a is an initial part of b
IsPrefix(a, b) == Len(a) <= Len(b) /\ SubSeq(b, 1, Len(a)) = a

\* The instance as the constructor and seek(origin) leave it, with buffers
\* of bufsiz bytes, on the input of the running instance
Fresh(bufsiz) == seek(NewParser(parser.fp.data, bufsiz), origin)

\* The tokens of that instance, nexttoken called until it raises
Rescan(bufsiz) == scan(Fresh(bufsiz), <<>>)

\* a call of nexttoken or nextobject has ended by an exception of the
\* tokenizer
Raised == ret.op \in {"nexttoken", "nextobject"} /\ ret.exc \in {"PSEOF", "AssertionError"}

\* C1: the (position, token) pairs that repeated nexttoken calls return are
\* those of the scan with the whole input in one buffer, for every buffer
\* size, and the calls end by the same exception
C1_BufferBoundaries ==
    LET whole == Rescan(BUFSIZ)
    IN  /\ IsPrefix(out, whole.tokens)
        /\ Raised => (out = whole.tokens /\ ret.exc = whole.exc)

\* The pass of nexttoken's loop that meets the end of the stream
Flushing == pc # "idle" /\ parser._tokens = <<>> /\ fillbuf(parser).exc = "PSEOF"

\* A token is under construction in Name, NameHex, Number, Real or Operator;
\* an accumulator that is no number (a lone sign, a lone dot) is not counted
UnderConstruction ==
    \/ parser._parse1 \in {"_parse_literal", "_parse_literal_hex", "_parse_keyword"}
    \/ parser._parse1 = "_parse_number" /\ IntOk(parser._curtoken)
    \/ parser._parse1 = "_parse_float" /\ FloatOk(parser._curtoken)

\* C2: when the stream ends with a token under construction in Name, NameHex,
\* Number, Real or Operator, the flush emits the token and sets eof, so that
\* nexttoken returns it and PSEOF is raised by the following call
C2_FlushEmits ==
    [][(Flushing /\ UnderConstruction)
          => (pc' = pc /\ Len(parser'._tokens) = 1 /\ parser'.eof)]_vars

\* The handler of hex strings emits its token
HexStringEmits ==
    /\ parser._parse1 = "_parse_hexstring"
    /\ parser._tokens = <<>>
    /\ parser'._tokens # <<>>

\* C3: a hex string with an odd number of hex digits h (whitespace stripped)
\* is decoded to the ByteString that h followed by 0 is decoded to
C3_OddHexString ==
    [][HexStringEmits =>
          LET h == SelectSeq(parser'._curtoken, NONSPC)
          IN  Len(h) % 2 = 1 =>
                 parser'._tokens[1][2] = ByteString(HEX_PAIR_sub(Append(h, ch.ZERO), 0))]_vars

\* C4: when nextobject raises PSEOF with no builder open, every completed
\* top-level object has been returned: none is left on the stack
C4_ObjectsReturned ==
    (ret.op = "nextobject" /\ ret.exc = "PSEOF" /\ parser.context = <<>>)
       => parser.curstack = <<>>

C6_InternOnce ==
    /\ \A x, y \in handed : x[1] = y[1] => x[2] = y[2]
    /\ \A x \in handed : table[x[1]] = x[2]

\* C7: a call of nexttoken returns a token or raises PSEOF, nothing else
C7_OnlyEof == ret.op = "nexttoken" => ret.exc \in {"none", "running", "PSEOF"}

\* The handler of #-escapes hands over to the handler of names
NameHexEnds ==
    /\ parser._parse1 = "_parse_literal_hex"
    /\ parser'._parse1 = "_parse_literal"

\* C8 as stated: two hex digits append the byte they encode, fewer than two
\* append nothing, and the name goes on at the byte that ended the escape
C8_NameHexAsStated ==
    [][NameHexEnds =>
          /\ parser'._curtoken =
                IF Len(parser.hex) = 2
                THEN Append(parser._curtoken,
                            16 * HexDigit(parser.hex[1]) + HexDigit(parser.hex[2]))
                ELSE parser._curtoken
          /\ tell(parser') = tell(parser)]_vars

\* C8: two hex digits append the byte they encode, one hex digit appends the
\* byte of that digit's value, no hex digit appends nothing, and the name
\* goes on at the byte that ended the escape
C8_NameHex ==
    [][NameHexEnds =>
          /\ parser'._curtoken =
                CASE Len(parser.hex) = 2 ->
                       Append(parser._curtoken,
                              16 * HexDigit(parser.hex[1]) + HexDigit(parser.hex[2]))
                  [] Len(parser.hex) = 1 ->
                       Append(parser._curtoken, HexDigit(parser.hex[1]))
                  [] OTHER -> parser._curtoken
          /\ tell(parser') = tell(parser)]_vars

\* C8 happens: /#2G is returned as the name of the byte 2 and G
C8_Witness ==
    /\ ret.op = "nexttoken"
    /\ ret.exc = "none"
    /\ ret.val[2] = LIT(<<HexDigit(ch.TWO), ch.G>>, TRUE)

\* A pass of nexttoken's loop with the handler of strings
StringPass == pc # "idle" /\ parser._parse1 = "_parse_string"

\* The string handler emits: the token is the accumulator, it starts at a
\* left parenthesis and ends before a right one, and a string without
\* backslash is the input between the two
StringEmitted ==
    LET start == parser'._curtokenpos
        close == tell(parser') - 1
        body == Slice(parser.fp.data, start + 1, close)
    IN  /\ parser'._tokens = << <<start, ByteString(parser'._curtoken)>> >>
        /\ At(parser.fp.data, start) = ch.LPAREN
        /\ At(parser.fp.data, close) = ch.RPAREN
        /\ (\A k \in 1..Len(body) : body[k] # ch.BACKSLASH) => parser'._curtoken = body

\* C9: paren is at least 1 in the states of strings; the string handler
\* emits a token exactly when paren comes back to 0; the token keeps the
\* inner parentheses and leaves out the last one
C9_ParenDepth ==
    /\ [](parser._parse1 \in {"_parse_string", "_parse_string_1"} => parser.paren >= 1)
    /\ [][StringPass =>
             /\ (parser'._tokens # <<>>) <=> (parser'.paren = 0)
             /\ parser'._tokens # <<>> => StringEmitted]_vars

\* C9 happens: (()) is returned as the string ()
C9_Witness ==
    /\ ret.op = "nexttoken"
    /\ ret.exc = "none"
    /\ ret.val[2] = ByteString(<<ch.LPAREN, ch.RPAREN>>)
    /\ parser.paren = 0

\* nextobject dispatches >> with a dictionary as the innermost builder
ClosesDict ==
    /\ pc = "nextobject"
    /\ parser._tokens # <<>>
    /\ Head(parser._tokens)[2] = KEYWORD_DICT_END
    /\ parser.curtype = "d"

\* a dict comes to the top of the stack
DictPushed ==
    /\ parser'.curstack # parser.curstack
    /\ parser'.curstack # <<>>
    /\ parser'.curstack[Len(parser'.curstack)][2].type = "dict"

\* C10: >> on a dictionary builder with an odd number of items makes
\* nextobject raise PSSyntaxError, strict or not, and a dict is pushed only
\* by >> on a builder with an even number of items
C10_DictParity ==
    [][/\ (ClosesDict /\ Len(parser.curstack) % 2 = 1) =>
             (pc' = "idle" /\ ret' = Ended("nextobject", "PSSyntaxError", <<>>)
              /\ ~DictPushed)
       /\ DictPushed => (ClosesDict /\ Len(parser.curstack) % 2 = 0)]_vars

\* C10 happens: the parity error in lenient mode
C10_Witness ==
    /\ ~STRICT
    /\ ret.op = "nextobject"
    /\ ret.exc = "PSSyntaxError"

\* The builder kind a closing delimiter closes; None for any other token
CloseKind(token) ==
    IF token = KEYWORD_ARRAY_END THEN "a"
    ELSE IF token = KEYWORD_DICT_END THEN "d"
    ELSE IF token = KEYWORD_PROC_END THEN "p"
    ELSE "None"

\* nextobject is about to dispatch the token at the head of _tokens
Dispatching == pc = "nextobject" /\ parser._tokens # <<>>

\* nextobject dispatches a closing delimiter that does not match the
\* innermost builder, or that comes with no builder open
Mismatch ==
    /\ Dispatching
    /\ CloseKind(Head(parser._tokens)[2]) # "None"
    /\ parser.curtype # CloseKind(Head(parser._tokens)[2])

\* C11: a closing delimiter of another kind than the innermost builder, or
\* with no builder open, makes nextobject raise PSTypeError in strict mode;
\* in lenient mode nothing is raised for it and context, curtype and
\* curstack are left as they were (the loop goes on, and ends by PSEOF
\* where the stream has ended)
C11_CloseMismatch ==
    [][Mismatch =>
          IF STRICT
          THEN pc' = "idle" /\ ret' = Ended("nextobject", "PSTypeError", <<>>)
          ELSE /\ ret'.exc \in {"running", "PSEOF"}
               /\ parser'.context = parser.context
               /\ parser'.curtype = parser.curtype
               /\ parser'.curstack = parser.curstack]_vars

\* C11 happens: in strict mode nextobject has raised PSTypeError on a ]
C11_Witness ==
    /\ STRICT
    /\ ret = Ended("nextobject", "PSTypeError", <<>>)
    /\ out # <<>>
    /\ out[Len(out)][2] = KEYWORD_ARRAY_END

\* The bytes of data from pos on begin with a lexeme of the token
LexemeAt(data, pos, token) ==
    CASE token.type = "int" ->
           \E k \in 1..(Len(data) - pos) :
              /\ IntOk(Slice(data, pos, pos + k))
              /\ IntValue(Slice(data, pos, pos + k)) = token.val
      [] token.type = "float" ->
           \E k \in 1..(Len(data) - pos) :
              /\ FloatOk(Slice(data, pos, pos + k))
              /\ FloatValue(Slice(data, pos, pos + k)) = token.val
      [] token.type = "bool" ->
           Slice(data, pos, pos + (IF token.val THEN 4 ELSE 5)) =
              (IF token.val THEN <<ch.t, ch.r, ch.u, ch.e>>
               ELSE <<ch.f, ch.a, ch.l, ch.s, ch.e>>)
      [] token.type = "PSKeyword" ->
           Slice(data, pos, pos + Len(token.name)) = token.name
      [] token.type = "PSLiteral" -> Slice(data, pos, pos + 1) = <<ch.SLASH>>
      [] token.type = "bytes" ->
           \/ Slice(data, pos, pos + 1) = <<ch.LPAREN>>
           \/ /\ Slice(data, pos, pos + 1) = <<ch.LT>>
              /\ Slice(data, pos + 1, pos + 2) # <<ch.LT>>
      [] OTHER -> FALSE

\* a handler emits a token
TokenEmitted == parser._tokens = <<>> /\ parser'._tokens # <<>>

\* a list or a dict comes to the top of the stack
CompositePushed ==
    /\ parser'.curstack # parser.curstack
    /\ parser'.curstack # <<>>
    /\ parser'.curstack[Len(parser'.curstack)][2].type \in {"list", "dict"}

\* The delimiter that opens a builder of a kind
Opener(kind) ==
    IF kind = "a" THEN <<ch.LBRACKET>>
    ELSE IF kind = "p" THEN <<ch.LBRACE>>
    ELSE <<ch.LT, ch.LT>>

\* C12: an emitted token is paired with the offset at which its lexeme
\* begins in the stream, whatever the buffers and also at the flush; a
\* closed array, dict or proc is pushed with the offset of its opening
\* delimiter, the one start_type has kept in context
C12_Positions ==
    [][/\ TokenEmitted =>
             /\ Len(parser'._tokens) = 1
             /\ LexemeAt(parser.fp.data, parser'._tokens[1][1], parser'._tokens[1][2])
       /\ CompositePushed =>
             LET pos == parser'.curstack[Len(parser'.curstack)][1]
             IN  /\ pos = parser.context[Len(parser.context)][1]
                 /\ Slice(parser.fp.data, pos, pos + Len(Opener(parser.curtype)))
                       = Opener(parser.curtype)]_vars

\* C12 happens: <</K true>> read one byte per buffer, the operator true
\* flushed by the >> that follows it, is the dict pushed with offset 0
C12_Witness ==
    /\ parser.BUFSIZ = 1
    /\ parser.curstack =
          << <<0, Dict(<< <<Str(<<ch.K>>), Boolean(TRUE)>> >>)>> >>

\* C13: the pass that meets the end of the stream sets eof; eof stays set
\* until seek; nexttoken called with eof set raises PSEOF; and no token is
\* pending when a call finds eof set
C13_EofSticky ==
    /\ [][Flushing => parser'.eof]_vars
    /\ [][(parser.eof /\ ret'.op # "seek") => parser'.eof]_vars
    /\ [][(pc = "idle" /\ parser.eof /\ ret'.op = "nexttoken")
             => (pc' = "idle" /\ ret'.exc = "PSEOF")]_vars
    /\ [](pc = "idle" /\ parser.eof => parser._tokens = <<>>)

\* nexttoken has returned a token
Returned == pc = "idle" /\ ret.op = "nexttoken" /\ ret.exc = "none"

\* data[pos:e] is the whole lexeme of the token, closing delimiter
\* included, and nothing after it
LexemeEnds(data, pos, token, e) ==
    /\ e \in (pos + 1)..Len(data)
    /\ CASE token.type = "int" ->
              /\ IntOk(Slice(data, pos, e))
              /\ IntValue(Slice(data, pos, e)) = token.val
         [] token.type = "float" ->
              /\ FloatOk(Slice(data, pos, e))
              /\ FloatValue(Slice(data, pos, e)) = token.val
         [] token.type = "bool" -> e = pos + (IF token.val THEN 4 ELSE 5)
         [] token.type = "PSKeyword" -> e = pos + Len(token.name)
         [] token.type = "PSLiteral" ->
              /\ \A k \in (pos + 1)..(e - 1) :
                    At(data, k) = ch.HASH \/ ~END_LITERAL(At(data, k))
              /\ e < Len(data) => (END_LITERAL(At(data, e)) /\ At(data, e) # ch.HASH)
         [] token.type = "bytes" ->
              At(data, e - 1) = (IF At(data, pos) = ch.LPAREN THEN ch.RPAREN ELSE ch.GT)
         [] OTHER -> FALSE

\* C16: when nexttoken has returned (pos, tok), tell() is the offset of the
\* first byte after the lexeme that begins at pos, closing delimiter
\* included, and is not past any whitespace that follows
C16_TellAfterToken ==
    Returned => LexemeEnds(parser.fp.data, ret.val[1], ret.val[2], tell(parser))

\* The items of the innermost builder that stand in key position
KeyItems ==
    {parser.curstack[k][2] : k \in {i \in 1..Len(parser.curstack) : i % 2 = 1}}

\* The keys of the dict that has come to the top of the stack
PushedKeys ==
    LET d == parser'.curstack[Len(parser'.curstack)][2].val
    IN  {d[i][1] : i \in 1..Len(d)}

EntersNextObject == pc = "idle" /\ ret'.op = "nextobject"

\* C18: at every call of nextobject results is not empty or context is
\* empty, also at a call that follows a call ended by an exception
C18_EntryState ==
    [][EntersNextObject => (parser.results # <<>> \/ parser.context = <<>>)]_vars

\* The builder kind an opening delimiter opens; None for any other token
OpenKind(token) ==
    IF token = KEYWORD_ARRAY_BEGIN THEN "a"
    ELSE IF token = KEYWORD_DICT_BEGIN THEN "d"
    ELSE IF token = KEYWORD_PROC_BEGIN THEN "p"
    ELSE "None"

\* nextobject dispatches an opening delimiter
Opens == Dispatching /\ OpenKind(Head(parser._tokens)[2]) # "None"

\* nextobject dispatches the closing delimiter of the innermost builder
Closes ==
    /\ Dispatching
    /\ CloseKind(Head(parser._tokens)[2]) # "None"
    /\ parser.curtype = CloseKind(Head(parser._tokens)[2])

\* The suspended builders but the innermost
Outer == SubSeq(parser.context, 1, Len(parser.context) - 1)

\* C19: curtype is None exactly when context is empty; an opening
\* delimiter suspends the running builder on context (its position, kind
\* and items) and starts an empty one, the closing delimiter of the
\* innermost builder takes one entry off, seek empties context and no other
\* step changes it; a close that raises nothing restores the kind and the
\* items of the suspended builder, in their order, with the closed composite
\* as the last item
C19_ContextStack ==
    /\ [](parser.curtype = "None" <=> parser.context = <<>>)
    /\ [][IF Opens
          THEN /\ parser'.context =
                     Append(parser.context,
                            <<Head(parser._tokens)[1], parser.curtype, parser.curstack>>)
               /\ parser'.curtype = OpenKind(Head(parser._tokens)[2])
               /\ parser'.curstack = <<>>
          ELSE IF Closes
          THEN /\ parser'.context = Outer
               /\ parser'.curtype = parser.context[Len(parser.context)][2]
               /\ IF ret'.exc \in {"PSSyntaxError", "PSTypeError"}
                  THEN parser'.curstack = parser.context[Len(parser.context)][3]
                  ELSE /\ CompositePushed
                       /\ SubSeq(parser'.curstack, 1, Len(parser'.curstack) - 1)
                             = parser.context[Len(parser.context)][3]
                       /\ parser'.curstack[Len(parser'.curstack)][1]
                             = parser.context[Len(parser.context)][1]
                       /\ parser.curtype # "d" =>
                             parser'.curstack[Len(parser'.curstack)][2]
                                = List([k \in 1..Len(parser.curstack) |->
                                           parser.curstack[k][2]])
          ELSE IF pc = "idle" /\ ret'.op = "seek"
          THEN parser'.context = <<>>
          ELSE parser'.context = parser.context]_vars

\* C19 happens: in {1 [}]} the array is closed inside the proc, which has
\* its item 1 back with the array after it
C19_Witness ==
    /\ parser.curtype = "p"
    /\ Len(parser.context) = 1
    /\ Len(parser.curstack) = 2
    /\ parser.curstack[1][2] = Integer(1)
    /\ parser.curstack[2][2] = List(<<>>)

\* C20: the positions nexttoken returns between two seeks are strictly
\* increasing, a token waiting to be returned lies after them, and no pass
\* leaves more than one token waiting
C20_PositionsIncrease ==
    /\ \A i \in 1..(Len(out) - 1) : out[i][1] < out[i + 1][1]
    /\ Len(parser._tokens) <= 1
    /\ (parser._tokens # <<>> /\ out # <<>>) =>
          out[Len(out)][1] < parser._tokens[1][1]

\* C20 happens: three tokens returned from buffers of one byte
C20_Witness ==
    /\ parser.BUFSIZ = 1
    /\ Len(out) >= 3
    /\ ret.op = "nexttoken"

\* The bytes of rest through its first line terminator, CR LF, CR or LF,
\* given that it has one
FirstLine(rest) ==
    LET j == Search(EOL, rest, 0)
    IN  IF At(rest, j) = ch.CR /\ j + 1 < Len(rest) /\ At(rest, j + 1) = ch.LF
        THEN Slice(rest, 0, j + 2)
        ELSE Slice(rest, 0, j + 1)

\* nextline has returned or raised
NextLineEnded == pc = "idle" /\ ret.op = "nextline"

\* C15: called at a cursor from which the stream has a line terminator,
\* with the stream's position not moved by revreadlines since the last seek,
\* nextline returns the cursor and the bytes from there through the first
\* terminator, whatever the buffers and also when that terminator is a CR
\* that ends the stream
C15_NextLine ==
    (/\ NextLineEnded
     /\ frame.at = "none"
     /\ Search(EOL, From(parser.fp.data, frame.linepos), 0) # -1) =>
        ret = Ended("nextline", "none",
                    <<frame.linepos, FirstLine(From(parser.fp.data, frame.linepos))>>)

\* the revreadlines generator has ended
RevEnded == pc = "idle" /\ ret = Ended("revreadlines", "StopIteration", <<>>)

\* C14: when revreadlines has ended, the chunks it has yielded go from the
\* end of the stream to its beginning; each begins at offset 0 or right
\* after a CR or LF and runs through the next CR or LF at or after its first
\* byte, or to the end of the stream; and every byte of the stream is in a
\* chunk, so that the chunk at offset 0 is among them
C14_RevLines ==
    RevEnded =>
        LET data == parser.fp.data
            through(off) == LET j == Search(EOL, data, off)
                            IN  IF j = -1 THEN Len(data) ELSE j + 1
        IN  /\ \A i \in 1..Len(yielded) :
                  /\ yielded[i][1] = 0 \/ EOL(At(data, yielded[i][1] - 1))
                  /\ yielded[i][2] = Slice(data, yielded[i][1], through(yielded[i][1]))
            /\ \A i \in 1..(Len(yielded) - 1) : yielded[i + 1][1] < yielded[i][1]
            /\ \A k \in 0..(Len(data) - 1) :
                  \E i \in 1..Len(yielded) :
                     k \in yielded[i][1]..(yielded[i][1] + Len(yielded[i][2]) - 1)

\* C22: in every state tell() is an offset inside the stream, from 0 to the
\* length of the stream, also after fillbuf, nextline or nexttoken has
\* raised PSEOF
C22_TellInStream == tell(parser) \in 0..Len(parser.fp.data)

\* C21: nextobject calls flush once after each token it has dispatched
\* without raising and that leaves context empty (a scalar outside any
\* builder, a close that empties context, an operator, a closer dropped in
\* lenient mode), and calls it neither after a token that leaves a builder
\* open nor at any other step; seek starts the count again
C21_FlushCalls ==
    [][IF Dispatching
       THEN flushed' = flushed +
               (IF /\ parser'.context = <<>>
                   /\ ret'.exc \notin {"PSTypeError", "PSSyntaxError", "PSException"}
                THEN 1 ELSE 0)
       ELSE IF pc = "idle" /\ ret'.op = "seek"
       THEN flushed' = 0
       ELSE flushed' = flushed]_vars

\* C21 happens: of the five tokens of [1] x ] in lenient mode the first ],
\* the operator x and the dropped ] have each been followed by a flush, the
\* [ and the 1 inside the array have not
C21_Witness ==
    /\ ~STRICT
    /\ parser.fp.data = <<91, 49, 93, 32, 120, 32, 93>>
    /\ Len(out) = 5
    /\ flushed = 3
    /\ parser.curstack = << <<0, List(<<Integer(1)>>)>> >>

============================================================================
